---- MODULE Spec2Model ----
(***************************************************************************)
(* Model of evaluate.py: the evaluation harness of DeepLab-ResNet.         *)
(*                                                                         *)
(* main() builds the graph (reader, network, prediction, streaming mean    *)
(* IoU), restores a checkpoint if one is found, starts the queue runner    *)
(* threads, runs num_steps evaluation steps and shuts the threads down.    *)
(*                                                                         *)
(* Spec is main() from the checkpoint lookup (line 117) to the end, and    *)
(* FairSpec is Spec with the scheduling assumption that a step which stays *)
(* possible is taken.  SpecAcc is the metric of lines 100-103 alone,       *)
(* driven by arbitrary sequences of sess.run(update_op) and mIoU.eval():   *)
(* the accumulator as an object with its two operations.                   *)
(*                                                                         *)
(* Abstractions.  The network's output for an image is any label map of    *)
(* the image's shape with entries in 0..num_classes-1 (the argmax of line  *)
(* 95 over num_classes channels).  The metric value is float32 in the      *)
(* program and an exact rational <<n, d>> in lowest terms here.  The       *)
(* arithmetic inside tf.contrib.metrics.streaming_mean_iou is the          *)
(* library's, not part of evaluate.py; it is modelled as the confusion     *)
(* matrix weighted by `weights` and the mean over the classes with a       *)
(* nonzero denominator.                                                    *)
(***************************************************************************)
EXTENDS Integers, Sequences, FiniteSets, Bags, TLC

VARIABLES
    args,            \* the parsed arguments: [num_classes, num_steps]
    IS_SAVE,         \* module flag of line 31 (a configuration input here)
    ckpt,            \* tf.train.get_checkpoint_state(SNAPSHOT_DIR)
    data,            \* the label maps the reader can supply
    pc,              \* position of the main thread
    step,            \* loop variable of line 133 (next value of the range)
    total_cm,        \* the metric's local variable: the confusion matrix
    load_step,       \* line 121 / 125
    restored,        \* whether saver.restore ran (line 62)
    out,             \* lines printed to stdout
    dir_existed,     \* whether SAVE_DIR existed when the program started
    dirExists,       \* whether SAVE_DIR exists now
    files,           \* paths written by im.save (line 140)
    stop_requested,  \* coord.should_stop()
    threads,         \* state of each queue runner thread
    updates,         \* history: number of update_op runs so far
    seen,            \* history: bag of <<label, prediction>> pixels fed so far
    last             \* history: the last metric operation and what it returned

vars == <<args, IS_SAVE, ckpt, data, pc, step, total_cm, load_step, restored,
          out, dir_existed, dirExists, files, stop_requested, threads,
          updates, seen, last>>

(***************************************************************************)
(* Bounds of the model.                                                    *)
(***************************************************************************)
MaxSteps == 11

MaxUpdates == 2

NumThreads == 1

(***************************************************************************)
(* Program constants.                                                      *)
(***************************************************************************)
IGNORE_LABEL == 255

SAVE_DIR == "./output/"

None == [none |-> TRUE]

(***************************************************************************)
(* Exact rationals <<n, d>>, d > 0, in lowest terms.                       *)
(***************************************************************************)
GCD[a \in Nat, b \in Nat] == IF b = 0 THEN a ELSE GCD[b, a % b]

Rat[n \in Nat, d \in Nat] ==
    IF n = 0 THEN <<0, 1>> ELSE <<n \div GCD[n, d], d \div GCD[n, d]>>

RatAdd[x \in Nat \X Nat, y \in Nat \X Nat] ==
    Rat[x[1] * y[2] + y[1] * x[2], x[2] * y[2]]

RatDivInt[x \in Nat \X Nat, k \in Nat] == Rat[x[1], x[2] * k]

(***************************************************************************)
(* Tensors.  A label map is a sequence of rows; a flat tensor a sequence.  *)
(***************************************************************************)
Classes(nc) == 0 .. (nc - 1)

RECURSIVE Reshape(_)
Reshape(m) == IF m = <<>> THEN <<>> ELSE Head(m) \o Reshape(Tail(m))

Column(m, c) == [r \in 1 .. Len(m) |-> m[r][c]]

RECURSIVE ColumnsFrom(_, _)
ColumnsFrom(m, c) ==
    IF c > Len(m[1]) THEN <<>> ELSE Column(m, c) \o ColumnsFrom(m, c + 1)

ReshapeTransposed(m) == IF m = <<>> THEN <<>> ELSE ColumnsFrom(m, 1)

pred_flatten(pred) == Reshape(pred)

gt(label_batch) == Reshape(label_batch)

WeightsLess(g, nc) ==
    [i \in DOMAIN g |-> IF g[i] < nc - 1 THEN 1 ELSE 0]

WeightsGreater(g, nc) ==
    [i \in DOMAIN g |-> IF g[i] > nc - 1 THEN 1 ELSE 0]

weights(g, nc) ==
    [i \in DOMAIN g |-> IF g[i] <= nc - 1 THEN 1 ELSE 0]

RECURSIVE SumSeq(_)
SumSeq(s) == IF s = <<>> THEN 0 ELSE Head(s) + SumSeq(Tail(s))

RECURSIVE SumTo(_, _)
SumTo(f, k) == IF k < 0 THEN 0 ELSE f[k] + SumTo(f, k - 1)

ZeroMatrix(nc) == [g \in Classes(nc) |-> [p \in Classes(nc) |-> 0]]

ConfusionMatrix(labels, predictions, nc, w) ==
    [g \in Classes(nc) |-> [p \in Classes(nc) |->
        SumSeq([i \in DOMAIN labels |->
            IF labels[i] = g /\ predictions[i] = p THEN w[i] ELSE 0])]]

UpdateOp(cm, pred, label_batch, nc) ==
    LET pf  == pred_flatten(pred)
        g   == gt(label_batch)
        w   == weights(g, nc)
        cur == ConfusionMatrix(g, pf, nc, w)
    IN  [a \in Classes(nc) |-> [b \in Classes(nc) |-> cm[a][b] + cur[a][b]]]

SumOverRow(cm, nc, c) == SumTo([a \in Classes(nc) |-> cm[a][c]], nc - 1)

SumOverCol(cm, nc, c) == SumTo([b \in Classes(nc) |-> cm[c][b]], nc - 1)

Denominator(cm, nc, c) == SumOverRow(cm, nc, c) + SumOverCol(cm, nc, c) - cm[c][c]

NumValidEntries(cm, nc) ==
    Cardinality({c \in Classes(nc) : Denominator(cm, nc, c) # 0})

Iou(cm, nc, c) ==
    LET d == Denominator(cm, nc, c)
    IN  Rat[cm[c][c], IF d > 0 THEN d ELSE 1]

RECURSIVE SumIou(_, _, _)
SumIou(cm, nc, k) ==
    IF k < 0 THEN <<0, 1>> ELSE RatAdd[Iou(cm, nc, k), SumIou(cm, nc, k - 1)]

MeanIoU(cm, nc) ==
    IF NumValidEntries(cm, nc) > 0
    THEN RatDivInt[SumIou(cm, nc, nc - 1), NumValidEntries(cm, nc)]
    ELSE <<0, 1>>

(***************************************************************************)
(* Strings as sequences of characters: the checkpoint path (line 121) and  *)
(* the mask file name (line 139).                                          *)
(***************************************************************************)
DigitChars == <<"0", "1", "2", "3", "4", "5", "6", "7", "8", "9">>

IsDigit(ch) == \E i \in DOMAIN DigitChars : DigitChars[i] = ch

DigitVal(ch) == (CHOOSE i \in DOMAIN DigitChars : DigitChars[i] = ch) - 1

\* os.path.basename: what follows the last "/".
RECURSIVE Basename(_)
Basename(path) ==
    IF \E i \in DOMAIN path : path[i] = "/"
    THEN Basename(Tail(path))
    ELSE path

\* str.split(sep): the parts between the separators, empty parts included.
RECURSIVE SplitFrom(_, _, _)
SplitFrom(s, sep, cur) ==
    IF s = <<>> THEN <<cur>>
    ELSE IF Head(s) = sep THEN <<cur>> \o SplitFrom(Tail(s), sep, <<>>)
    ELSE SplitFrom(Tail(s), sep, Append(cur, Head(s)))

Split(s, sep) == SplitFrom(s, sep, <<>>)

\* int(s): the value of a string of decimal digits, a ValueError otherwise.
RECURSIVE IntOfDigits(_, _)
IntOfDigits(s, acc) ==
    IF s = <<>> THEN acc ELSE IntOfDigits(Tail(s), 10 * acc + DigitVal(Head(s)))

Int_(s) ==
    IF s # <<>> /\ \A i \in DOMAIN s : IsDigit(s[i])
    THEN [value |-> IntOfDigits(s, 0)]
    ELSE [error |-> "ValueError"]

\* str(n) for n >= 0.
RECURSIVE Str(_)
Str(n) ==
    IF n < 10 THEN <<DigitChars[n + 1]>>
    ELSE Str(n \div 10) \o <<DigitChars[(n % 10) + 1]>>

FilenameNext(s) == <<"mask">> \o Str(s + 1) \o <<".png">>

Filename(s) == <<"mask">> \o Str(s) \o <<".png">>

SavePath(s) == <<SAVE_DIR>> \o Filename(s)

(***************************************************************************)
(* The checkpoint lookup of lines 117-125.                                 *)
(***************************************************************************)
HasCheckpointLoose(c) == c # None

HasCheckpoint(c) == c # None /\ c.model_checkpoint_path # <<>>

\* int(os.path.basename(path).split('-')[1])
LoadStepOf(path) ==
    LET parts == Split(Basename(path), "-")
    IN  IF Len(parts) < 2 THEN [error |-> "IndexError"] ELSE Int_(parts[2])

(***************************************************************************)
(* The evaluation loop of lines 133-143.                                   *)
(***************************************************************************)
LoopContinuesInclusive(s, n) == s <= n

LoopContinues(s, n) == s < n

ShouldReportOffByOne(s) == (s + 1) % 10 = 0

ShouldReport(s) == s % 10 = 0

\* What evaluating the mIoU tensor leaves in total_cm: it reads the variable.
CmAfterEvalReset(cm) == [a \in DOMAIN cm |-> [b \in DOMAIN cm[a] |-> 0]]

CmAfterEval(cm) == cm

\* coord.join(threads) returns once every thread has stopped.
JoinReadyNoWait(th) == TRUE

JoinReady(th) == \A t \in DOMAIN th : th[t] = "stopped"

(***************************************************************************)
(* Inputs.                                                                 *)
(***************************************************************************)
Positions(m) == (1 .. Len(m)) \X (1 .. Len(m[1]))

\* The predictions the network can produce for an image of this shape.
Preds(label, nc) ==
    [1 .. Len(label) -> [1 .. Len(label[1]) -> Classes(nc)]]

Maps(h, w, labels) == [1 .. h -> [1 .. w -> labels]]

EvalLabels == {0, IGNORE_LABEL}

AccLabels == {0, 1, 2, 3, IGNORE_LABEL}

ScenarioLabel == << <<0, 1>>, <<2, 1>> >>

ScenarioPred == << <<0, 1>>, <<2, 0>> >>

EvalData == Maps(1, 1, EvalLabels)

AccData ==
    Maps(1, 1, AccLabels)
        \cup { ScenarioLabel,
               << <<IGNORE_LABEL, 3>> >>,
               << <<1, IGNORE_LABEL>> >> }

CheckpointStates ==
    { None,
      [model_checkpoint_path |-> <<>>],
      [model_checkpoint_path |-> <<"s", "/", "m", "-", "1", "2">>],
      [model_checkpoint_path |-> <<"s", "-", "3", "/", "m", "-", "7", "-", "b">>],
      [model_checkpoint_path |-> <<"s", "/", "m">>],
      [model_checkpoint_path |-> <<"s", "/", "m", "-", "x">>] }

PixelBag(label, pred) ==
    LET pairs == {<<label[q[1]][q[2]], pred[q[1]][q[2]]>> : q \in Positions(label)}
    IN  [x \in pairs |->
            Cardinality({q \in Positions(label) :
                <<label[q[1]][q[2]], pred[q[1]][q[2]]>> = x})]

Kept(label, nc) ==
    Cardinality({q \in Positions(label) : label[q[1]][q[2]] < nc})

(***************************************************************************)
(* Spec: main() from line 112 on.                                          *)
(***************************************************************************)
Init ==
    /\ args \in [num_classes : {1, 2}, num_steps : 0 .. MaxSteps]
    /\ IS_SAVE \in BOOLEAN
    /\ ckpt \in CheckpointStates
    /\ data = EvalData
    /\ pc = "load"
    /\ step = 0
    /\ total_cm = ZeroMatrix(args.num_classes)
    /\ load_step = -1    \* not yet assigned
    /\ restored = FALSE
    /\ out = <<>>
    /\ dir_existed \in BOOLEAN
    /\ dirExists = dir_existed
    /\ files = {}
    /\ stop_requested = FALSE
    /\ threads = [t \in 1 .. NumThreads |-> "created"]
    /\ updates = 0
    /\ seen = EmptyBag
    /\ last = [op |-> "init"]

\* Lines 117-125.
LoadCheckpoint ==
    /\ pc = "load"
    /\ IF HasCheckpoint(ckpt)
       THEN LET n == LoadStepOf(ckpt.model_checkpoint_path)
            IN  IF "value" \in DOMAIN n
                THEN /\ load_step' = n.value
                     /\ restored' = TRUE
                     /\ out' = Append(out, <<"Restored model parameters from",
                                             ckpt.model_checkpoint_path>>)
                     /\ pc' = "start"
                ELSE /\ pc' = "crashed"
                     /\ UNCHANGED <<load_step, restored, out>>
       ELSE /\ out' = Append(out, <<"No checkpoint file found.">>)
            /\ load_step' = 0
            /\ pc' = "start"
            /\ UNCHANGED restored
    /\ UNCHANGED <<args, IS_SAVE, ckpt, data, step, total_cm, dir_existed,
                   dirExists, files, stop_requested, threads, updates, seen, last>>

\* Line 128.
StartQueueRunners ==
    /\ pc = "start"
    /\ threads' = [t \in DOMAIN threads |-> "running"]
    /\ pc' = "mkdir"
    /\ UNCHANGED <<args, IS_SAVE, ckpt, data, step, total_cm, load_step, restored,
                   out, dir_existed, dirExists, files, stop_requested, updates,
                   seen, last>>

\* Lines 130-131.
MakeSaveDir ==
    /\ pc = "mkdir"
    /\ dirExists' = TRUE
    /\ pc' = "loop"
    /\ UNCHANGED <<args, IS_SAVE, ckpt, data, step, total_cm, load_step, restored,
                   out, dir_existed, files, stop_requested, threads, updates,
                   seen, last>>

\* Lines 133-143: one iteration on the image the reader supplies.
EvalStep(label, pred) ==
    /\ pc = "loop"
    /\ LoopContinues(step, args.num_steps)
    /\ \E cm1 \in {UpdateOp(total_cm, pred, label, args.num_classes)} :
           /\ files' = IF IS_SAVE = TRUE THEN files \cup {SavePath(step)} ELSE files
           /\ IF ShouldReport(step)
              THEN /\ out' = Append(out, <<"step", step, "mIoU:",
                                           MeanIoU(cm1, args.num_classes)>>)
                   /\ total_cm' = CmAfterEval(cm1)
              ELSE /\ out' = out
                   /\ total_cm' = cm1
    /\ updates' = updates + 1
    /\ step' = step + 1
    /\ UNCHANGED <<args, IS_SAVE, ckpt, data, pc, load_step, restored, dir_existed,
                   dirExists, stop_requested, threads, seen, last>>

\* Line 145, reached when the range of line 133 is exhausted.
RequestStop ==
    /\ pc = "loop"
    /\ ~LoopContinues(step, args.num_steps)
    /\ stop_requested' = TRUE
    /\ pc' = "join"
    /\ UNCHANGED <<args, IS_SAVE, ckpt, data, step, total_cm, load_step, restored,
                   out, dir_existed, dirExists, files, threads, updates, seen, last>>

\* A queue runner thread leaves its loop once the coordinator asks to stop.
ThreadExit(t) ==
    /\ threads[t] = "running"
    /\ stop_requested
    /\ threads' = [threads EXCEPT ![t] = "stopped"]
    /\ UNCHANGED <<args, IS_SAVE, ckpt, data, pc, step, total_cm, load_step,
                   restored, out, dir_existed, dirExists, files, stop_requested,
                   updates, seen, last>>

\* Line 146.
Join ==
    /\ pc = "join"
    /\ JoinReady(threads)
    /\ pc' = "done"
    /\ UNCHANGED <<args, IS_SAVE, ckpt, data, step, total_cm, load_step, restored,
                   out, dir_existed, dirExists, files, stop_requested, threads,
                   updates, seen, last>>

Next ==
    \/ LoadCheckpoint
    \/ StartQueueRunners
    \/ MakeSaveDir
    \/ \E label \in data : \E pred \in Preds(label, args.num_classes) :
          EvalStep(label, pred)
    \/ RequestStop
    \/ \E t \in DOMAIN threads : ThreadExit(t)
    \/ Join

Spec == Init /\ [][Next]_vars

\* The main thread runs on and a queue runner that is asked to stop exits:
\* a step that stays possible is eventually taken.
FairSpec == Spec /\ WF_vars(Next)

(***************************************************************************)
(* SpecAcc: the metric of lines 100-103 under any sequence of runs of      *)
(* update_op and evaluations of mIoU.  seen and last are kept here only.   *)
(***************************************************************************)
InitAcc ==
    /\ args \in [num_classes : {1, 2, 3}, num_steps : {0}]
    /\ IS_SAVE = FALSE
    /\ ckpt = None
    /\ data = AccData
    /\ pc = "metric"
    /\ step = 0
    /\ total_cm = ZeroMatrix(args.num_classes)
    /\ load_step = 0
    /\ restored = FALSE
    /\ out = <<>>
    /\ dir_existed = TRUE
    /\ dirExists = TRUE
    /\ files = {}
    /\ stop_requested = FALSE
    /\ threads = [t \in 1 .. NumThreads |-> "running"]
    /\ updates = 0
    /\ seen = EmptyBag
    /\ last = [op |-> "init"]

\* sess.run(update_op) on one image.
RunUpdateOp(label, pred) ==
    /\ pc = "metric"
    /\ updates < MaxUpdates
    /\ total_cm' = UpdateOp(total_cm, pred, label, args.num_classes)
    /\ updates' = updates + 1
    /\ seen' = seen (+) PixelBag(label, pred)
    /\ last' = [op |-> "update", after |-> last.op,
                kept |-> Kept(label, args.num_classes),
                size |-> Cardinality(Positions(label))]
    /\ UNCHANGED <<args, IS_SAVE, ckpt, data, pc, step, load_step, restored, out,
                   dir_existed, dirExists, files, stop_requested, threads>>

\* mIoU.eval(session=sess).
EvalMIoU ==
    /\ pc = "metric"
    /\ last' = [op |-> "value", val |-> MeanIoU(total_cm, args.num_classes)]
    /\ total_cm' = CmAfterEval(total_cm)
    /\ UNCHANGED <<args, IS_SAVE, ckpt, data, pc, step, load_step, restored, out,
                   dir_existed, dirExists, files, stop_requested, threads,
                   updates, seen>>

NextAcc ==
    \/ \E label \in data : \E pred \in Preds(label, args.num_classes) :
          RunUpdateOp(label, pred)
    \/ EvalMIoU

SpecAcc == InitAcc /\ [][NextAcc]_vars

(***************************************************************************)
(* Definitions used to state the properties.                               *)
(***************************************************************************)
RECURSIVE SetSum(_, _)
SetSum(S, f) ==
    IF S = {} THEN 0
    ELSE LET c == CHOOSE x \in S : TRUE IN f[c] + SetSum(S \ {c}, f)

RECURSIVE SetProd(_, _)
SetProd(S, f) ==
    IF S = {} THEN 1
    ELSE LET c == CHOOSE x \in S : TRUE IN f[c] * SetProd(S \ {c}, f)

NC == args.num_classes

\* Pixels fed so far with ground truth g and prediction p.
Count(g, p) == CopiesIn(<<g, p>>, seen)

Intersection(c) == Count(c, c)

Union(c) ==
    SetSum(Classes(NC), [p \in Classes(NC) |-> Count(c, p)])
        + SetSum(Classes(NC), [g \in Classes(NC) |-> Count(g, c)])
        - Count(c, c)

ValidClasses == {c \in Classes(NC) : Union(c) # 0}

\* v is the mean of Intersection(c) / Union(c) over the valid classes.
IsMeanOverValid(v) ==
    LET u == [c \in ValidClasses |-> Union(c)]
    IN  v[1] * Cardinality(ValidClasses) * SetProd(ValidClasses, u)
          = v[2] * SetSum(ValidClasses,
                      [c \in ValidClasses |->
                          Intersection(c) * SetProd(ValidClasses \ {c}, u)])

MatrixTotal(cm) ==
    SetSum(Classes(NC) \X Classes(NC),
           [x \in Classes(NC) \X Classes(NC) |-> cm[x[1]][x[2]]])

DiagonalTotal(cm) == SetSum(Classes(NC), [c \in Classes(NC) |-> cm[c][c]])

IsStepLine(l) == l[1] = "step"

StepLines == SelectSeq(out, IsStepLine)

ReportedSteps == {s \in 0 .. (step - 1) : s % 10 = 0}

LoopOver == pc \in {"join", "done"}

NoCheckpoint == ckpt = None \/ ckpt.model_checkpoint_path = <<>>

ScenarioFed ==
    /\ NC = 3
    /\ updates = 1
    /\ seen = PixelBag(ScenarioLabel, ScenarioPred)

(***************************************************************************)
(* C1.  An update changes the confusion matrix only through the pixels     *)
(* whose ground-truth label is below num_classes: each entry [g][p] grows  *)
(* by the number of pixels fed with label g and prediction p (g below      *)
(* num_classes), and an update all of whose pixels have a label of         *)
(* num_classes or more leaves the matrix as it was, whatever was           *)
(* predicted.                                                              *)
(***************************************************************************)
C1_IgnoredPixelsNeverCount ==
    [][ (last'.op = "update" /\ updates' = updates + 1) =>
           /\ last'.kept = 0 => total_cm' = total_cm
           /\ \A g \in Classes(NC) : \A p \in Classes(NC) :
                 total_cm'[g][p] - total_cm[g][p]
                     = CopiesIn(<<g, p>>, seen') - CopiesIn(<<g, p>>, seen)
           /\ MatrixTotal(total_cm') - MatrixTotal(total_cm) = last'.kept ]_vars

C1_Witness ==
    /\ last.op = "update"
    /\ last.kept = 0
    /\ last.size = 2
    /\ updates = 2
    /\ MatrixTotal(total_cm) > 0

(***************************************************************************)
(* C2.  Evaluating the metric value leaves the confusion matrix as it was; *)
(* two evaluations with no update between them return the same value; and  *)
(* an update made after an evaluation adds to the counts of all earlier    *)
(* updates.                                                                *)
(***************************************************************************)
C2_QueryDoesNotMutate ==
    [][ /\ last'.op = "value" => (total_cm' = total_cm /\ seen' = seen)
        /\ (last.op = "value" /\ last'.op = "value") => last'.val = last.val
        /\ (last'.op = "update" /\ last'.after = "value") =>
              /\ \A g \in Classes(NC) : \A p \in Classes(NC) :
                    total_cm'[g][p] = CopiesIn(<<g, p>>, seen')
              /\ MatrixTotal(total_cm') = MatrixTotal(total_cm) + last'.kept ]_vars

C2_Witness ==
    /\ last.op = "update"
    /\ last.after = "value"
    /\ updates = 2
    /\ last.kept > 0
    /\ MatrixTotal(total_cm) > last.kept

(***************************************************************************)
(* C3.  The confusion matrix counts, from zero, the pixels fed so far with *)
(* a label below num_classes, by label and prediction; and whenever some   *)
(* class has a nonzero union, the value returned is the mean of            *)
(* intersection / union over exactly the classes with a nonzero union.     *)
(***************************************************************************)
C3_MeanOverValidClasses ==
    /\ \A g \in Classes(NC) : \A p \in Classes(NC) : total_cm[g][p] = Count(g, p)
    /\ (last.op = "value" /\ ValidClasses # {}) => IsMeanOverValid(last.val)

C3_Witness ==
    /\ NC = 3
    /\ last.op = "value"
    /\ Cardinality(ValidClasses) = 2
    /\ last.val = <<1, 4>>

(***************************************************************************)
(* C4 as amended.  With num_classes = 3, one update of the empty           *)
(* accumulator with prediction [[0,1],[2,0]] and ground truth              *)
(* [[0,1],[2,1]] leaves 3 diagonal counts and 1 off-diagonal count; the    *)
(* per-class IoUs are 1/2, 1/2 and 1/1 and the value is their mean, 2/3.   *)
(***************************************************************************)
C4_ScenarioValue ==
    ScenarioFed =>
        /\ DiagonalTotal(total_cm) = 3
        /\ MatrixTotal(total_cm) - DiagonalTotal(total_cm) = 1
        /\ total_cm[1][0] = 1
        /\ Iou(total_cm, 3, 0) = <<1, 2>>
        /\ Iou(total_cm, 3, 1) = <<1, 2>>
        /\ Iou(total_cm, 3, 2) = <<1, 1>>
        /\ last.op = "value" => last.val = <<2, 3>>

C4_Witness == ScenarioFed /\ last.op = "value" /\ last.val = <<2, 3>>

(***************************************************************************)
(* C4 as originally stated: the same scenario gives the per-class IoUs     *)
(* 1/1, 1/2 and 1/1 and the value 5/6.                                     *)
(***************************************************************************)
C4_AsStated ==
    ScenarioFed =>
        /\ DiagonalTotal(total_cm) = 3
        /\ MatrixTotal(total_cm) - DiagonalTotal(total_cm) = 1
        /\ Iou(total_cm, 3, 0) = <<1, 1>>
        /\ Iou(total_cm, 3, 1) = <<1, 2>>
        /\ Iou(total_cm, 3, 2) = <<1, 1>>
        /\ last.op = "value" => last.val = <<5, 6>>

\* Updated at least once, and only with predictions equal to the ground truth.
OnlyPerfectUpdates ==
    /\ updates > 0
    /\ \A x \in BagToSet(seen) : x[1] = x[2]

(***************************************************************************)
(* C5.  Once the accumulator has been updated, and as long as every pixel  *)
(* it was fed had a prediction equal to its ground truth, the value is     *)
(* exactly 1.                                                              *)
(***************************************************************************)
C5_PerfectPredictionGivesOne ==
    OnlyPerfectUpdates =>
        /\ MeanIoU(total_cm, NC) = <<1, 1>>
        /\ last.op = "value" => last.val = <<1, 1>>

C5_Witness ==
    /\ OnlyPerfectUpdates
    /\ NC = 3
    /\ updates = 2
    /\ BagCardinality(seen) = 5
    /\ last.op = "value"

\* What holds of every state after the lookup when no checkpoint was found.
C6_StateInv ==
    (NoCheckpoint /\ pc # "load") =>
        /\ pc # "crashed"
        /\ load_step = 0
        /\ ~restored
        /\ out[1] = <<"No checkpoint file found.">>
        /\ \A i \in DOMAIN out : out[i][1] # "Restored model parameters from"
        /\ LoopOver => updates = args.num_steps

(***************************************************************************)
(* C6.  With no checkpoint, the loader prints "No checkpoint file found.", *)
(* sets load_step to 0, restores nothing and does not fail; the program    *)
(* then runs the loop for all num_steps steps and ends.                    *)
(***************************************************************************)
C6_NoCheckpointStillEvaluates ==
    /\ []C6_StateInv
    /\ NoCheckpoint ~> (pc = "done" /\ updates = args.num_steps)

C6_Witness ==
    /\ ckpt = None
    /\ pc = "done"
    /\ updates = MaxSteps
    /\ load_step = 0

\* f is "./output/mask<i>.png" for the decimal numeral of some i in 0..n-1.
IsMaskFileOf(f, n) ==
    /\ Len(f) >= 4
    /\ f[1] = "./output/"
    /\ f[2] = "mask"
    /\ f[Len(f)] = ".png"
    /\ LET digits == SubSeq(f, 3, Len(f) - 1)
       IN  /\ \A i \in DOMAIN digits : IsDigit(digits[i])
           /\ Len(digits) > 1 => digits[1] # "0"
           /\ IntOfDigits(digits, 0) \in 0 .. (n - 1)

(***************************************************************************)
(* C7.  With the save flag on, once the loop has run its n steps SAVE_DIR  *)
(* exists and the files written are exactly SAVE_DIR/mask0.png ...         *)
(* SAVE_DIR/mask{n-1}.png: one per step, the decimal step index between    *)
(* "mask" and ".png".                                                      *)
(***************************************************************************)
C7_MaskFiles ==
    /\ pc \in {"loop", "join", "done"} => dirExists
    /\ (IS_SAVE /\ LoopOver) =>
          /\ Cardinality(files) = args.num_steps
          /\ \A f \in files : IsMaskFileOf(f, args.num_steps)
          /\ args.num_steps = 2 =>
                files = { <<"./output/", "mask", "0", ".png">>,
                          <<"./output/", "mask", "1", ".png">> }
          /\ args.num_steps = 11 =>
                <<"./output/", "mask", "1", "0", ".png">> \in files

C7_Witness ==
    /\ IS_SAVE
    /\ pc = "done"
    /\ args.num_steps = 2
    /\ ~dir_existed
    /\ dirExists
    /\ Cardinality(files) = 2

\* The number of updates made, by position of the main thread.
C8_StepInv ==
    /\ pc \in {"load", "start", "mkdir", "crashed"} => (updates = 0 /\ step = 0)
    /\ pc = "loop" => (updates = step /\ step <= args.num_steps)
    /\ LoopOver => (updates = args.num_steps /\ step = args.num_steps)

(***************************************************************************)
(* C8.  The loop makes exactly num_steps updates, one per step, the step   *)
(* going up by one each time; it is left only when step = num_steps, it    *)
(* is left eventually, and with num_steps = 0 no update is made.           *)
(***************************************************************************)
C8_ExactlyNumStepsUpdates ==
    /\ []C8_StepInv
    /\ [][ /\ (updates' # updates \/ step' # step) =>
                 /\ step' = step + 1
                 /\ updates' = updates + 1
                 /\ step < args.num_steps
                 /\ pc = "loop" /\ pc' = "loop"
           /\ (pc = "loop" /\ pc' # "loop") => step = args.num_steps ]_vars
    /\ (pc = "loop") ~> (LoopOver /\ updates = args.num_steps)

C8_Witness == pc = "done" /\ args.num_steps = MaxSteps /\ updates = MaxSteps

(***************************************************************************)
(* C9.  The lines "step s mIoU: v" printed so far are those of the steps   *)
(* s already run with s % 10 = 0, in order, and no others; the value on    *)
(* the line of step s is the metric of the matrix after the update of      *)
(* step s.                                                                 *)
(***************************************************************************)
C9_ReportEveryTenSteps ==
    /\ Len(StepLines) = Cardinality(ReportedSteps)
    /\ \A i \in DOMAIN StepLines :
          /\ StepLines[i][2] = 10 * (i - 1)
          /\ StepLines[i][3] = "mIoU:"
    /\ (step >= 1 /\ (step - 1) % 10 = 0) =>
          /\ updates = step
          /\ StepLines[Len(StepLines)][2] = step - 1
          /\ StepLines[Len(StepLines)][4] = MeanIoU(total_cm, NC)

C9_Witness ==
    /\ step = 11
    /\ Len(StepLines) = 2
    /\ StepLines[2][4] = <<1, 3>>
    /\ StepLines[1][4] = <<1, 1>>

\* When the stop request has been made, and what the end of the run implies.
C10_StateInv ==
    /\ stop_requested => (LoopOver /\ step = args.num_steps /\ updates = args.num_steps)
    /\ pc = "loop" => ~stop_requested
    /\ pc \in {"done", "crashed"} => \A t \in DOMAIN threads : threads[t] # "running"
    /\ pc = "done" => \A t \in DOMAIN threads : threads[t] = "stopped"

====
